---- MODULE Spec2Model ----
(***************************************************************************)
(* Model of the two agno toolkits                                          *)
(*   libs/agno/agno/tools/hackernews.py  (HackerNewsTools)                 *)
(*   libs/agno/agno/tools/thinking.py    (ThinkingTools)                   *)
(*                                                                         *)
(* A tool call is a sequence of blocking steps of one Python thread: pc    *)
(* is the position of the running call.  Every HTTP request is answered    *)
(* by the remote with an answer chosen when the request is issued, and is  *)
(* logged in `requests`.  A JSON text returned by json.dumps is held as    *)
(* the JSON document it denotes; the text returned by think is held        *)
(* character by character.                                                 *)
(***************************************************************************)
EXTENDS Integers, Sequences, FiniteSets, TLC

VARIABLES
    pc,             \* position of the running call: idle, list, loop, done
    op,             \* the operation that is running or ran last
    num_stories,    \* argument of get_top_hackernews_stories
    username,       \* argument of get_user_details
    story_ids,      \* local of get_top_hackernews_stories
    i,              \* index of the next element of the for loop
    stories,        \* local of get_top_hackernews_stories
    requests,       \* the HTTP requests issued by the running call, with their answers
    result,         \* what the call returned (or the exception that left it)
    session_state,  \* agent.session_state
    session0,       \* agent.session_state as the host created it
    recorded,       \* the thoughts passed to think so far, in call order
    hn_tools,       \* the HackerNewsTools object
    thinking_tools  \* the ThinkingTools object

vars == <<pc, op, num_stories, username, story_ids, i, stories, requests, result,
          session_state, session0, recorded, hn_tools, thinking_tools>>

callVars == <<pc, op, num_stories, username, story_ids, i, stories, requests, result>>
sessionVars == <<session_state, session0, recorded>>
toolkitVars == <<hn_tools, thinking_tools>>

-----------------------------------------------------------------------------
(* Bounds of the model *)

\* story identifiers are 1..MaxIds, and the remote list holds at most MaxIds of them
MaxIds == 2
\* num_stories ranges over -MaxNeg..MaxCount
MaxCount == 3
MaxNeg == 1
\* a user's `submitted` list holds at most MaxSubmitted items
MaxSubmitted == 2
\* think is called at most MaxThoughts times in a session
MaxThoughts == 3
\* the bounds of the specification in which the three operations interleave
MaxIdsAll == 1
MaxThoughtsAll == 1

Min(a, b) == IF a < b THEN a ELSE b
Max(a, b) == IF a < b THEN b ELSE a

-----------------------------------------------------------------------------
(* JSON values, as response.json() yields them and json.dumps takes them *)

JNull == [kind |-> "null", value |-> <<>>]
JNumber(n) == [kind |-> "number", value |-> n]
JString(s) == [kind |-> "string", value |-> s]
JList(s) == [kind |-> "list", value |-> s]
JObject(f) == [kind |-> "object", value |-> f]
\* a response body that is not JSON at all
NotJson == [kind |-> "not_json", value |-> <<>>]

\* json.dumps(v): the JSON text of v, held as the document it denotes
JsonDumps(v) == [type |-> "json", doc |-> v]

\* Truthy without the emptiness test: every parsed value counts as true
TruthyAlways(v) == TRUE

\* Python's truth value of a parsed JSON value (`not story_ids`)
Truthy(v) ==
    CASE v.kind = "null" -> FALSE
      [] v.kind = "number" -> v.value # 0
      [] v.kind = "string" -> v.value # ""
      [] v.kind = "list" -> v.value # <<>>
      [] v.kind = "object" -> DOMAIN v.value # {}
      [] OTHER -> TRUE

\* PySlice without the stop: the whole sequence
PySliceAll(s, n) == s

\* Python's s[:n]
PySlice(s, n) ==
    LET stop == IF n < 0 THEN Max(Len(s) + n, 0) ELSE Min(n, Len(s))
    IN SubSeq(s, 1, stop)

-----------------------------------------------------------------------------
(* The HTTP layer: httpx.get, Response.raise_for_status, Response.json *)

NoExc == "none"

\* httpx.get(url): raises a transport error (an httpx.HTTPError) when the
\* request cannot be completed
HttpGetExc(answer) == IF answer.transport = "error" THEN "ConnectError" ELSE NoExc

\* response.raise_for_status(): raises httpx.HTTPStatusError (an httpx.HTTPError)
\* on a 4xx/5xx answer
RaiseForStatusExc(answer) == IF answer.status = "error" THEN "HTTPStatusError" ELSE NoExc

\* response.json(): raises json.JSONDecodeError when the body is not JSON
JsonExc(answer) == IF answer.body.kind = "not_json" THEN "JSONDecodeError" ELSE NoExc

\* IsException narrowed to one class, as `except ValueError` would be
IsExceptionNarrow(exc) == exc \in {"JSONDecodeError"}

\* the except clauses: `except httpx.HTTPError` and `except Exception`
IsHTTPError(exc) == exc \in {"ConnectError", "HTTPStatusError"}
IsException(exc) ==
    exc \in {"ConnectError", "HTTPStatusError", "JSONDecodeError", "TypeError", "AttributeError"}

Answer(transport, status, body) == [transport |-> transport, status |-> status, body |-> body]
\* a request that got no answer
NoAnswer == Answer("error", "none", NotJson)
\* the bodies a 4xx/5xx answer carries
PermissionDenied == JObject([error |-> "Permission denied"])
ErrorBodies == {NotJson, JNull, PermissionDenied}
\* the answers that are failures: no answer, or a 4xx/5xx answer
FailureAnswers == {NoAnswer} \cup {Answer("ok", "error", b) : b \in ErrorBodies}

AnswersWith(bodies) == FailureAnswers \cup {Answer("ok", "ok", b) : b \in bodies}

Request(path, id, answer) == [path |-> path, id |-> id, answer |-> answer]

-----------------------------------------------------------------------------
(* The remote: what the three endpoints may answer *)

Authors == {"alice", "bob"}

\* GET /v0/item/{id}.json: a story record (with or without `by`, possibly
\* already holding a `username`), null, or a JSON value that is no record
StoryRecords(id) ==
    {[id |-> id, by |-> a] : a \in Authors}
        \cup {[id |-> id], [id |-> id, by |-> "alice", username |-> "stale"]}
\* the bodies that are no record: not JSON, null, a number
NoRecordBodies == {NotJson, JNull, JNumber(7)}
ItemBodies(id) == NoRecordBodies \cup {JObject(r) : r \in StoryRecords(id)}
ItemAnswers(id) == AnswersWith(ItemBodies(id))

\* GET /v0/topstories.json: a list of distinct identifiers out of 1..n, null, or
\* a JSON value that is no list
RECURSIVE SeqsUpTo(_, _)
SeqsUpTo(S, n) ==
    IF n = 0 THEN {<<>>}
    ELSE LET shorter == SeqsUpTo(S, n - 1)
         IN shorter \cup {Append(s, x) : s \in {t \in shorter : Len(t) = n - 1}, x \in S}
IdLists(n) ==
    {l \in SeqsUpTo(1..n, n) : \A j, k \in 1..Len(l) : l[j] = l[k] => j = k}
ListBodies(n) == ErrorBodies \cup {JList(l) : l \in IdLists(n)}
ListAnswers(n) == AnswersWith(ListBodies(n))

-----------------------------------------------------------------------------
(* HackerNewsTools.get_top_hackernews_stories *)

ErrorObject(error, message) == JsonDumps(JObject([error |-> error, message |-> message]))

NoStoriesFound == ErrorObject("No stories found", <<"No top stories available at this time.">>)

\* an exception that no except clause caught leaves the call
Propagated(exc) == [type |-> "raised", doc |-> JString(exc)]

\* StoriesExcept handing back, on a network error, the stories fetched so far
StoriesExceptPartial(exc) ==
    IF IsHTTPError(exc) THEN JsonDumps(JList(stories))
    ELSE IF IsException(exc)
    THEN ErrorObject("Unexpected error", <<"An unexpected error occurred: ", exc>>)
    ELSE Propagated(exc)

\* the except clauses of get_top_hackernews_stories; str(e) is held as the
\* exception's name
StoriesExcept(exc) ==
    IF IsHTTPError(exc)
    THEN ErrorObject("Network error",
                     <<"Failed to fetch top stories due to network error: ", exc>>)
    ELSE IF IsException(exc)
    THEN ErrorObject("Unexpected error", <<"An unexpected error occurred: ", exc>>)
    ELSE Propagated(exc)

\* the exception, if any, of `httpx.get(...)`, `raise_for_status()`, `.json()`
StoriesFetchExc(answer) ==
    IF HttpGetExc(answer) # NoExc THEN HttpGetExc(answer)
    ELSE IF RaiseForStatusExc(answer) # NoExc THEN RaiseForStatusExc(answer)
    ELSE JsonExc(answer)

\* story["username"] = story["by"]
AddUsername(story) ==
    [k \in DOMAIN story \cup {"username"} |-> IF k = "username" THEN story["by"] ELSE story[k]]

\* `story is None or "by" not in story`
SkipStory(story) == story.kind = "null" \/ "by" \notin DOMAIN story.value

NoResult == [type |-> "none", doc |-> JNull]

\* a call starts when no other call is running
BetweenCalls == {"idle", "done"}

CallTopStories(counts) ==
    /\ pc \in BetweenCalls
    /\ \E n \in counts : num_stories' = n
    /\ op' = "get_top_hackernews_stories"
    /\ pc' = "list"
    /\ story_ids' = <<>>
    /\ i' = 1
    /\ stories' = <<>>
    /\ requests' = <<>>
    /\ result' = NoResult
    /\ UNCHANGED <<username, sessionVars, toolkitVars>>

\* lines 44-56: the list request, and the check of the list
ListRequest(answers) ==
    /\ pc = "list"
    /\ \E a \in answers :
        LET exc == StoriesFetchExc(a)
            ids == a.body
        IN /\ requests' = Append(requests, Request("topstories", 0, a))
           /\ IF exc # NoExc
              THEN /\ result' = StoriesExcept(exc)
                   /\ pc' = "done"
                   /\ UNCHANGED story_ids
              ELSE IF ~Truthy(ids)
              THEN /\ result' = NoStoriesFound
                   /\ pc' = "done"
                   /\ UNCHANGED story_ids
              ELSE IF ids.kind # "list"
              THEN \* story_ids[:num_stories] on a value that cannot be sliced
                   /\ result' = StoriesExcept("TypeError")
                   /\ pc' = "done"
                   /\ UNCHANGED story_ids
              ELSE /\ story_ids' = ids.value
                   /\ pc' = "loop"
                   /\ UNCHANGED result
    /\ UNCHANGED <<op, num_stories, username, i, stories, sessionVars, toolkitVars>>

\* line 60: the sequence the for loop runs over
LoopIds == PySlice(story_ids, num_stories)

\* lines 60-72: one iteration of the for loop
StoryRequest ==
    /\ pc = "loop"
    /\ i <= Len(LoopIds)
    /\ \E a \in ItemAnswers(LoopIds[i]) :
        LET exc == StoriesFetchExc(a)
            story == a.body
        IN /\ requests' = Append(requests, Request("item", LoopIds[i], a))
           /\ IF exc # NoExc
              THEN /\ result' = StoriesExcept(exc)
                   /\ pc' = "done"
                   /\ UNCHANGED <<i, stories>>
              ELSE IF story.kind # "null" /\ story.kind # "object"
              THEN \* `"by" not in story` on a value that is no container
                   /\ result' = StoriesExcept("TypeError")
                   /\ pc' = "done"
                   /\ UNCHANGED <<i, stories>>
              ELSE /\ stories' = IF SkipStory(story) THEN stories
                                 ELSE Append(stories, AddUsername(story.value))
                   /\ i' = i + 1
                   /\ UNCHANGED <<pc, result>>
    /\ UNCHANGED <<op, num_stories, username, story_ids, sessionVars, toolkitVars>>

\* line 74: return json.dumps(stories)
ReturnStories ==
    /\ pc = "loop"
    /\ i > Len(LoopIds)
    /\ result' = JsonDumps(JList(stories))
    /\ pc' = "done"
    /\ UNCHANGED <<op, num_stories, username, story_ids, i, stories, requests,
                   sessionVars, toolkitVars>>

-----------------------------------------------------------------------------
(* HackerNewsTools.get_user_details *)

Usernames == {"pg", "dang", "this_user_should_not_exist_12345"}

\* GET /v0/user/{username}.json: a user record holding any of the fields
\* user_id, karma, about and submitted (an array), null, or a JSON value that
\* is no record
UserFields == {"user_id", "karma", "about", "submitted"}
FullUserRecords ==
    {[user_id |-> JString("pg"), karma |-> JNumber(5), about |-> JString("hi"),
      submitted |-> JList([k \in 1..n |-> k])] : n \in 0..MaxSubmitted}
UserRecords == {[k \in D |-> r[k]] : r \in FullUserRecords, D \in SUBSET UserFields}
UserBodies == NoRecordBodies \cup {JObject(r) : r \in UserRecords}
UserAnswers == AnswersWith(UserBodies)

UserNotFound(name) ==
    ErrorObject("User not found", <<"The user '", name, "' does not exist on Hacker News.">>)

\* the except clauses of get_user_details
UserExcept(exc) ==
    IF IsHTTPError(exc)
    THEN ErrorObject("Network error",
                     <<"Failed to fetch user details due to network error: ", exc>>)
    ELSE IF IsException(exc)
    THEN ErrorObject("Unexpected error", <<"An unexpected error occurred: ", exc>>)
    ELSE Propagated(exc)

\* the exception, if any, of `httpx.get(...).json()`: the status is not looked at
UserFetchExc(answer) ==
    IF HttpGetExc(answer) # NoExc THEN HttpGetExc(answer) ELSE JsonExc(answer)

\* the default of user.get("submitted", [])
NoItems == JList(<<>>)

\* dict.get(key, default)
DictGet(d, key, default) == IF key \in DOMAIN d THEN d[key] ELSE default

\* UserDetails reading the key `id` where the code reads `user_id`
UserDetailsById(user) ==
    [id |-> DictGet(user, "id", JNull),
     karma |-> DictGet(user, "karma", JNull),
     about |-> DictGet(user, "about", JNull),
     total_items_submitted |-> JNumber(Len(DictGet(user, "submitted", NoItems).value))]

\* lines 117-122: the projection of a user record
UserDetails(user) ==
    [id |-> DictGet(user, "user_id", JNull),
     karma |-> DictGet(user, "karma", JNull),
     about |-> DictGet(user, "about", JNull),
     total_items_submitted |-> JNumber(Len(DictGet(user, "submitted", NoItems).value))]

\* lines 102-139: the whole call, which issues one request
GetUserDetails(names, answers) ==
    /\ pc \in BetweenCalls
    /\ \E name \in names, a \in answers :
        LET exc == UserFetchExc(a)
            user == a.body
        IN /\ username' = name
           /\ requests' = <<Request("user", 0, a)>>
           /\ result' = IF exc # NoExc THEN UserExcept(exc)
                        ELSE IF user.kind = "null" THEN UserNotFound(name)
                        ELSE IF user.kind # "object"
                        THEN \* user.get on a value that is no mapping
                             UserExcept("AttributeError")
                        ELSE JsonDumps(JObject(UserDetails(user.value)))
    /\ op' = "get_user_details"
    /\ pc' = "done"
    /\ UNCHANGED <<num_stories, story_ids, i, stories, sessionVars, toolkitVars>>

-----------------------------------------------------------------------------
(* Text, character by character: str.join, textwrap.dedent, str.strip *)

NL == "\n"
SP == " "
\* the indentation of the template's second and third line (thinking.py, lines 82-83)
IndentWidth == 16
Spaces(n) == [k \in 1..n |-> SP]

RECURSIVE Join(_, _)
\* sep.join(parts)
Join(parts, sep) ==
    IF parts = <<>> THEN <<>>
    ELSE IF Len(parts) = 1 THEN parts[1]
    ELSE parts[1] \o sep \o Join(Tail(parts), sep)

RECURSIVE SplitLines(_)
\* the lines of a text, without their line ends
SplitLines(text) ==
    IF \A k \in 1..Len(text) : text[k] # NL THEN <<text>>
    ELSE LET p == CHOOSE k \in 1..Len(text) : text[k] = NL /\ \A j \in 1..(k - 1) : text[j] # NL
         IN <<SubSeq(text, 1, p - 1)>> \o SplitLines(SubSeq(text, p + 1, Len(text)))

IsBlank(c) == c \in {SP, "\t"}
IsSpace(c) == c \in {SP, "\t", NL}

\* _whitespace_only_re.sub('', text), on one line
BlankLine(line) == IF \A k \in 1..Len(line) : IsBlank(line[k]) THEN <<>> ELSE line

\* the leading blanks of a line
LeadingBlanks(line) ==
    LET n == CHOOSE k \in 0..Len(line) :
                 /\ \A j \in 1..k : IsBlank(line[j])
                 /\ k < Len(line) => ~IsBlank(line[k + 1])
    IN SubSeq(line, 1, n)

StartsWith(s, prefix) ==
    Len(prefix) <= Len(s) /\ SubSeq(s, 1, Len(prefix)) = prefix

\* the longest common prefix of two sequences
CommonPrefix(a, b) ==
    LET n == CHOOSE k \in 0..Min(Len(a), Len(b)) :
                 /\ \A j \in 1..k : a[j] = b[j]
                 /\ k < Min(Len(a), Len(b)) => a[k + 1] # b[k + 1]
    IN SubSeq(a, 1, n)

RECURSIVE Margin(_)
\* the margin dedent finds for a sequence of indents (<<>> when there is none)
Margin(indents) ==
    IF indents = <<>> THEN <<>>
    ELSE IF Len(indents) = 1 THEN indents[1]
    ELSE CommonPrefix(indents[1], Margin(Tail(indents)))

\* textwrap.dedent(text)
Dedent(text) ==
    LET lines == [k \in DOMAIN SplitLines(text) |-> BlankLine(SplitLines(text)[k])]
        indents == [k \in DOMAIN SelectSeq(lines, LAMBDA l : l # <<>>) |->
                        LeadingBlanks(SelectSeq(lines, LAMBDA l : l # <<>>)[k])]
        margin == Margin(indents)
        cut(line) == IF margin # <<>> /\ StartsWith(line, margin)
                     THEN SubSeq(line, Len(margin) + 1, Len(line)) ELSE line
    IN Join([k \in DOMAIN lines |-> cut(lines[k])], <<NL>>)

\* text.strip()
Strip(text) ==
    IF \A k \in 1..Len(text) : IsSpace(text[k]) THEN <<>>
    ELSE LET first == CHOOSE k \in 1..Len(text) :
                          ~IsSpace(text[k]) /\ \A j \in 1..(k - 1) : IsSpace(text[j])
             last == CHOOSE k \in 1..Len(text) :
                         ~IsSpace(text[k]) /\ \A j \in (k + 1)..Len(text) : IsSpace(text[j])
         IN SubSeq(text, first, last)

-----------------------------------------------------------------------------
(* ThinkingTools.think *)

\* the texts a thought may be
Thoughts == {<<"a">>, <<"b">>, <<"c">>, <<"d", SP>>}

JText(chars) == [kind |-> "text", value |-> chars]
EmptyDict == JObject(<<>>)
EmptyList == JList(<<>>)

\* d[key] = v
DictSet(d, key, v) == [k \in DOMAIN d \cup {key} |-> IF k = key THEN v ELSE d[k]]

\* lines 72-73: `if agent.session_state is None: agent.session_state = {}`
EnsureState(state) == IF state.kind = "null" THEN EmptyDict ELSE state

\* EnsureThoughts without its test: the log is emptied on every call
EnsureThoughtsReset(state) == JObject(DictSet(state.value, "thoughts", EmptyList))

\* lines 74-75: `if "thoughts" not in ...: agent.session_state["thoughts"] = []`
EnsureThoughts(state) ==
    IF "thoughts" \notin DOMAIN state.value
    THEN JObject(DictSet(state.value, "thoughts", EmptyList))
    ELSE state

\* line 76: agent.session_state["thoughts"].append(thought)
AppendThought(state, thought) ==
    JObject(DictSet(state.value, "thoughts",
                    JList(Append(state.value["thoughts"].value, thought))))

\* line 79: "\n".join([f"- {t}" for t in agent.session_state["thoughts"]])
ThoughtLines(log) == Join([k \in DOMAIN log |-> <<"-", SP>> \o log[k]], <<NL>>)

\* lines 80-84: the template, dedented and stripped
FormatThoughts(log) ==
    Strip(Dedent(<<"T", "h", "o", "u", "g", "h", "t", "s", ":", NL>>
                 \o Spaces(IndentWidth) \o ThoughtLines(log) \o <<NL>>
                 \o Spaces(IndentWidth)))

\* lines 86-88: the except clause of think
ThinkExcept(exc) ==
    IF IsException(exc)
    THEN [type |-> "text", doc |-> [kind |-> "message",
                                    value |-> <<"Error recording thought: ", exc>>]]
    ELSE Propagated(exc)

\* lines 68-88: the whole call
Think(thoughts, max) ==
    /\ pc \in BetweenCalls
    /\ Len(recorded) < max
    /\ \E thought \in thoughts :
        LET state == EnsureThoughts(EnsureState(session_state))
        IN /\ recorded' = Append(recorded, thought)
           /\ IF state.value["thoughts"].kind # "list"
              THEN \* .append on a value that is no list
                   /\ session_state' = state
                   /\ result' = ThinkExcept("AttributeError")
              ELSE /\ session_state' = AppendThought(state, thought)
                   /\ result' = [type |-> "text",
                                 doc |-> JText(FormatThoughts(
                                     AppendThought(state, thought).value["thoughts"].value))]
    /\ op' = "think"
    /\ pc' = "done"
    /\ requests' = <<>>
    /\ UNCHANGED <<num_stories, username, story_ids, i, stories, session0, toolkitVars>>

\* agent.session_state as the host may hand it over: None, a mapping without
\* `thoughts`, a mapping whose `thoughts` is a list, or is no list
SessionStates ==
    {JNull, EmptyDict, JObject([name |-> JString("s1")]),
     JObject([thoughts |-> JNumber(7)]),
     JObject([thoughts |-> EmptyList]),
     JObject([name |-> JString("s1"), thoughts |-> EmptyList])}
        \cup {JObject([thoughts |-> JList(<<t>>)]) : t \in Thoughts}

-----------------------------------------------------------------------------
(* The constructors *)

None == "None"
NotBuilt ==
    [built |-> "no", name |-> "", tools |-> <<>>, instructions |-> None,
     add_instructions |-> FALSE, args |-> <<>>]

\* Toolkit.__init__(name, tools, instructions, add_instructions): registers the
\* operations of `tools`, in order
ToolkitInit(name, tools, instructions, add_instructions) ==
    [built |-> "ok", name |-> name, tools |-> tools, instructions |-> instructions,
     add_instructions |-> add_instructions, args |-> <<>>]

\* Toolkit.register(function)
Register(toolkit, function) == [toolkit EXCEPT !.tools = Append(@, function)]

\* hackernews.py, lines 23-27: the operations HackerNewsTools hands to Toolkit
HNEnabled(enable_get_top_stories, enable_get_user_details, all) ==
    (IF all \/ enable_get_top_stories THEN <<"get_top_hackernews_stories">> ELSE <<>>)
        \o (IF all \/ enable_get_user_details THEN <<"get_user_details">> ELSE <<>>)

\* HackerNewsTools.__init__
HackerNewsToolsInit(enable_get_top_stories, enable_get_user_details, all) ==
    [ToolkitInit("hackers_news",
                 HNEnabled(enable_get_top_stories, enable_get_user_details, all),
                 None, FALSE)
     EXCEPT !.args = [enable_get_top_stories |-> enable_get_top_stories,
                      enable_get_user_details |-> enable_get_user_details,
                      all |-> all]]

DefaultInstructions == "## Using the think tool ..."

\* RegisterThink without its test: think is always registered
RegisterThinkAlways(toolkit, think) == Register(toolkit, "think")

\* thinking.py, lines 39-41: `if think: self.register(self.think)`
RegisterThink(toolkit, think) == IF think THEN Register(toolkit, "think") ELSE toolkit

\* ThinkingTools.__init__; `all` is no parameter of it: as a keyword it goes
\* to Toolkit.__init__ with the other kwargs ("absent" when it is not given),
\* which either takes it or rejects it with a TypeError (accepted tells which)
ThinkingToolsInit(think, instructions, add_instructions, all, accepted) ==
    LET base == ToolkitInit("thinking_tools", <<>>, instructions, add_instructions)
        withInstructions ==
            IF instructions = None THEN [base EXCEPT !.instructions = DefaultInstructions]
            ELSE base
        args == [think |-> think, instructions |-> instructions,
                 add_instructions |-> add_instructions, all |-> all]
    IN IF accepted
       THEN [RegisterThink(withInstructions, think) EXCEPT !.args = args]
       ELSE [NotBuilt EXCEPT !.built = "TypeError", !.args = args]

\* the arguments ThinkingTools is built with: instructions None or a text,
\* the keyword `all` absent or given
InstructionsArgs == {None, "custom"}
AllArgs == {"absent", "True", "False"}

ConstructHackerNewsTools ==
    /\ hn_tools.built = "no"
    /\ \E top \in BOOLEAN, user \in BOOLEAN, all \in BOOLEAN :
        hn_tools' = HackerNewsToolsInit(top, user, all)
    /\ UNCHANGED <<callVars, sessionVars, thinking_tools>>

ConstructThinkingTools ==
    /\ thinking_tools.built = "no"
    /\ \E think \in BOOLEAN, instructions \in InstructionsArgs, add \in BOOLEAN,
          all \in AllArgs, accepted \in BOOLEAN :
        /\ all = "absent" => accepted
        /\ thinking_tools' = ThinkingToolsInit(think, instructions, add, all, accepted)
    /\ UNCHANGED <<callVars, sessionVars, hn_tools>>

-----------------------------------------------------------------------------
(* Initial states and specifications *)

InitCall ==
    /\ pc = "idle"
    /\ op = "none"
    /\ num_stories = 0
    /\ username = ""
    /\ story_ids = <<>>
    /\ i = 1
    /\ stories = <<>>
    /\ requests = <<>>
    /\ result = NoResult

\* the toolkits as their constructors build them by default
InitToolkits ==
    /\ hn_tools = HackerNewsToolsInit(TRUE, TRUE, FALSE)
    /\ thinking_tools = ThinkingToolsInit(TRUE, None, FALSE, "absent", TRUE)

InitSession ==
    /\ session_state \in SessionStates
    /\ session0 = session_state
    /\ recorded = <<>>

NoSession ==
    /\ session_state = JNull
    /\ session0 = JNull
    /\ recorded = <<>>

\* get_top_hackernews_stories, called again and again
InitStories == InitCall /\ NoSession /\ InitToolkits
StoriesCounts == -MaxNeg..MaxCount
StoriesListAnswers == ListAnswers(MaxIds)
NextStories ==
    \/ CallTopStories(StoriesCounts)
    \/ ListRequest(StoriesListAnswers)
    \/ StoryRequest
    \/ ReturnStories
SpecStories == InitStories /\ [][NextStories]_vars

\* get_user_details, called again and again
InitUser == InitCall /\ NoSession /\ InitToolkits
NextUser == GetUserDetails(Usernames, UserAnswers)
SpecUser == InitUser /\ [][NextUser]_vars

\* think, called up to MaxThoughts times on one session state
InitThink == InitCall /\ InitSession /\ InitToolkits
NextThink == Think(Thoughts, MaxThoughts)
SpecThink == InitThink /\ [][NextThink]_vars

\* the two constructors
InitToolkitsUnbuilt ==
    /\ InitCall
    /\ NoSession
    /\ hn_tools = NotBuilt
    /\ thinking_tools = NotBuilt
NextToolkits ==
    \/ ConstructHackerNewsTools
    \/ ConstructThinkingTools
SpecToolkits == InitToolkitsUnbuilt /\ [][NextToolkits]_vars

\* the three operations, called in any order on one session state
Init == InitCall /\ InitSession /\ InitToolkits
AllCounts == 0..MaxIdsAll
AllListAnswers == ListAnswers(MaxIdsAll)
AllUsernames == {"pg"}
AllUserAnswers == AnswersWith(NoRecordBodies \cup {JObject(r) : r \in FullUserRecords})
AllThoughts == {<<"a">>}
Next ==
    \/ CallTopStories(AllCounts)
    \/ ListRequest(AllListAnswers)
    \/ StoryRequest
    \/ ReturnStories
    \/ GetUserDetails(AllUsernames, AllUserAnswers)
    \/ Think(AllThoughts, MaxThoughtsAll)
Spec == Init /\ [][Next]_vars

-----------------------------------------------------------------------------
(* What the properties below read off a state *)

StoriesReturned == op = "get_top_hackernews_stories" /\ pc = "done"
UserReturned == op = "get_user_details" /\ pc = "done"
ThinkReturned == op = "think" /\ pc = "done"

\* the request was answered with a success status and a JSON body
Received(answer) ==
    answer.transport = "ok" /\ answer.status = "ok" /\ answer.body.kind # "not_json"
\* the request failed at transport or protocol level
Failed(answer) == answer.transport = "error" \/ answer.status = "error"

\* the remote list: the body of the answer to the list request
ListBody == requests[1].answer.body
GotList == requests # <<>> /\ Received(requests[1].answer) /\ ListBody.kind = "list"

\* the `error` of an error object, "none" for any other result
ErrorOf(r) ==
    IF r.type = "json" /\ r.doc.kind = "object" /\ "error" \in DOMAIN r.doc.value
    THEN r.doc.value.error ELSE "none"

ReturnedArray == StoriesReturned /\ result.type = "json" /\ result.doc.kind = "list"

-----------------------------------------------------------------------------
(* C1 *)

\* the JSON text "[]"
EmptyArray == JsonDumps(JList(<<>>))

\* C1 as stated: whenever the list request succeeded and count <= 0 or the
\* remote list is empty, the call returns the "No stories found" object.
C1_NoStoriesForNonPositiveCount ==
    (StoriesReturned /\ GotList /\ (num_stories <= 0 \/ ListBody.value = <<>>))
        => result = NoStoriesFound

\* C1 as amended: the call returns the "No stories found" object for every
\* count when the remote list is empty, and never when the remote list is
\* non-empty, count <= 0 included: count = 0 then yields the empty array.
C1_NoStoriesIffEmptyList ==
    (StoriesReturned /\ GotList) =>
        /\ (result = NoStoriesFound) <=> (ListBody.value = <<>>)
        /\ (ListBody.value # <<>> /\ num_stories = 0) => result = EmptyArray

C1_Witness ==
    /\ ReturnedArray
    /\ GotList
    /\ ListBody.value # <<>>
    /\ num_stories <= 0

-----------------------------------------------------------------------------
(* C2 *)

\* every request of the call succeeded and every story answer is a record or null
AllSucceeded ==
    \A k \in 1..Len(requests) :
        /\ Received(requests[k].answer)
        /\ k > 1 => (requests[k].answer.body.kind = "null"
                        \/ requests[k].answer.body.kind = "object")

\* the first n elements of s, as the claim reads "the first count identifiers"
FirstN(s, n) == SubSeq(s, 1, Min(Max(n, 0), Len(s)))

\* a record extended with `username` equal to its `by`
WithUsername(r) == [k \in DOMAIN r \cup {"username"} |-> IF k = "username" THEN r.by ELSE r[k]]

\* of a sequence of answered bodies, the records that hold `by`, each with its username
Retained(bodies) ==
    LET kept == SelectSeq(bodies, LAMBDA b : b.kind = "object" /\ "by" \in DOMAIN b.value)
    IN [k \in DOMAIN kept |-> WithUsername(kept[k].value)]

\* the identifiers and the bodies of the story requests, in the order issued
RequestedIds == [k \in 1..(Len(requests) - 1) |-> requests[k + 1].id]
AnsweredBodies == [k \in 1..(Len(requests) - 1) |-> requests[k + 1].answer.body]

\* C2 as stated: when every request succeeds and the remote list is non-empty,
\* the returned array is the retained records of the first `count` identifiers,
\* in order, and has at most `count` elements (none when count is negative).
C2_FirstCountRecords ==
    (StoriesReturned /\ GotList /\ ListBody.value # <<>> /\ AllSucceeded) =>
        LET first == FirstN(ListBody.value, num_stories)
        IN /\ Len(RequestedIds) >= Len(first)
           /\ SubSeq(RequestedIds, 1, Len(first)) = first
           /\ result = JsonDumps(JList(Retained(SubSeq(AnsweredBodies, 1, Len(first)))))
           /\ Len(result.doc.value) <= Max(num_stories, 0)

\* the same for count >= 0, where the code agrees with the claim
C2_FirstCountRecordsNonNegative == num_stories >= 0 => C2_FirstCountRecords

-----------------------------------------------------------------------------
(* C3 *)

ErrorObjectKeys == {"error", "message"}

\* C3: when a request of the call failed at transport or protocol level, the
\* call returns the "Network error" object and nothing else, whatever was
\* fetched before.
C3_AllOrNothing ==
    (StoriesReturned /\ \E k \in 1..Len(requests) : Failed(requests[k].answer)) =>
        /\ result.type = "json"
        /\ result.doc.kind = "object"
        /\ DOMAIN result.doc.value = ErrorObjectKeys
        /\ result.doc.value.error = "Network error"
        /\ result.doc.value.message[1] = "Failed to fetch top stories due to network error: "

C3_Witness ==
    /\ StoriesReturned
    /\ Len(requests) >= 3
    /\ Failed(requests[Len(requests)].answer)
    /\ stories # <<>>
    /\ ErrorOf(result) = "Network error"

-----------------------------------------------------------------------------
(* C4 *)

\* the session state holds no thought yet
FreshSession ==
    \/ session0.kind = "null"
    \/ "thoughts" \notin DOMAIN session0.value
    \/ session0.value["thoughts"] = EmptyList

RECURSIVE ClaimedLog(_)
\* "Thoughts:" followed by one line "- <thought>" per thought
ClaimedLog(log) ==
    IF log = <<>> THEN <<"T", "h", "o", "u", "g", "h", "t", "s", ":">>
    ELSE ClaimedLog(SubSeq(log, 1, Len(log) - 1)) \o <<NL, "-", SP>> \o log[Len(log)]

\* C4 as stated: on a fresh session state the n-th call of think returns
\* "Thoughts:\n- t1\n...\n- tn".
C4_RenderedLog ==
    (ThinkReturned /\ FreshSession /\ result.doc.kind = "text")
        => result.doc.value = ClaimedLog(recorded)

-----------------------------------------------------------------------------
(* C5 *)

\* the log the host handed over
InitialLog ==
    IF /\ session0.kind = "object"
       /\ "thoughts" \in DOMAIN session0.value
       /\ session0.value["thoughts"].kind = "list"
    THEN session0.value["thoughts"].value ELSE <<>>

\* the session state started as null, without `thoughts`, or with a list
StartsWellFormed ==
    \/ session0.kind = "null"
    \/ "thoughts" \notin DOMAIN session0.value
    \/ session0.value["thoughts"].kind = "list"

\* C5: on such a session state no call of think fails, and after the calls
\* `thoughts` is the initial log followed by the thoughts in call order.
C5_AppendOnly ==
    (StartsWellFormed /\ recorded # <<>>) =>
        /\ ThinkReturned => result.doc.kind = "text"
        /\ session_state.kind = "object"
        /\ "thoughts" \in DOMAIN session_state.value
        /\ session_state.value["thoughts"] = JList(InitialLog \o recorded)

C5_Witness ==
    /\ ThinkReturned
    /\ StartsWellFormed
    /\ InitialLog # <<>>
    /\ Len(recorded) >= 2
    /\ session_state.value["thoughts"].value = InitialLog \o recorded

-----------------------------------------------------------------------------
(* C6 *)

UserAnswer == requests[1].answer
UserParsed == UserAnswer.transport = "ok" /\ UserAnswer.body.kind # "not_json"

\* the projection the claim describes
ClaimedProjection(r) ==
    [id |-> IF "user_id" \in DOMAIN r THEN r.user_id ELSE JNull,
     karma |-> IF "karma" \in DOMAIN r THEN r.karma ELSE JNull,
     about |-> IF "about" \in DOMAIN r THEN r.about ELSE JNull,
     total_items_submitted |->
         JNumber(IF "submitted" \in DOMAIN r THEN Len(r.submitted.value) ELSE 0)]

\* C6: the call returns the "User not found" object exactly when the remote
\* answers null, and for a record the projection id, karma, about,
\* total_items_submitted.
C6_Projection ==
    UserReturned =>
        /\ (result = UserNotFound(username)) <=> (UserParsed /\ UserAnswer.body.kind = "null")
        /\ (UserParsed /\ UserAnswer.body.kind = "object") =>
               result = JsonDumps(JObject(ClaimedProjection(UserAnswer.body.value)))

\* the fields of the record {"karma": 5, "about": "hi", "submitted": [...]}
ExampleFields == {"karma", "about", "submitted"}

C6_Witness ==
    /\ UserReturned
    /\ UserParsed
    /\ UserAnswer.body.kind = "object"
    /\ DOMAIN UserAnswer.body.value = ExampleFields
    /\ result.type = "json"
    /\ result.doc.value.id = JNull
    /\ result.doc.value.total_items_submitted = JNumber(MaxSubmitted)

-----------------------------------------------------------------------------
(* C7 *)

\* C7 as stated: a request failure that get_top_hackernews_stories reports
\* under some `error` is reported by get_user_details under the same one; a
\* transport failure or a non-success status is a "Network error".
C7_SameClassification ==
    (UserReturned /\ StoriesFetchExc(UserAnswer) # NoExc) =>
        /\ ErrorOf(result) = ErrorOf(StoriesExcept(StoriesFetchExc(UserAnswer)))
        /\ Failed(UserAnswer) => ErrorOf(result) = "Network error"

-----------------------------------------------------------------------------
(* C8 *)

Registered(toolkit, function) == \E k \in DOMAIN toolkit.tools : toolkit.tools[k] = function

HNFollowsFlags ==
    hn_tools.built = "ok" =>
        /\ Registered(hn_tools, "get_top_hackernews_stories")
               <=> (hn_tools.args.enable_get_top_stories \/ hn_tools.args.all)
        /\ Registered(hn_tools, "get_user_details")
               <=> (hn_tools.args.enable_get_user_details \/ hn_tools.args.all)

-----------------------------------------------------------------------------
(* C9 *)

\* C9: every call ends by returning: a JSON array or object for the two
\* fetchers, the rendered log or "Error recording thought: ..." for think; no
\* exception leaves a call.
C9_NoFaultPropagates ==
    pc = "done" =>
        /\ result.type # "raised"
        /\ (op = "get_top_hackernews_stories" \/ op = "get_user_details") =>
               /\ result.type = "json"
               /\ result.doc.kind = "list" \/ result.doc.kind = "object"
        /\ op = "think" =>
               /\ result.type = "text"
               /\ \/ result.doc.kind = "text"
                  \/ /\ result.doc.kind = "message"
                     /\ result.doc.value[1] = "Error recording thought: "

C9_Witness ==
    /\ ThinkReturned
    /\ session0.kind = "object"
    /\ "thoughts" \in DOMAIN session0.value
    /\ session0.value["thoughts"].kind # "list"
    /\ result.doc.kind = "message"

-----------------------------------------------------------------------------
(* C10 *)

\* C10 as stated, for N >= 0: a call that completes without failure has
\* issued exactly N + 1 requests.
C10_ExactlyNPlusOneRequests ==
    (ReturnedArray /\ num_stories >= 0) => Len(requests) = num_stories + 1

\* the identifiers num_stories selects from the list l
SelectedIds(l) ==
    IF num_stories >= 0 THEN SubSeq(l, 1, Min(num_stories, Len(l)))
    ELSE SubSeq(l, 1, Max(Len(l) + num_stories, 0))

\* C10 as amended: the requests of a call are the list request followed by
\* one story request per selected identifier, in list order, none after a
\* request that failed; a call that completes without failure has issued
\* exactly 1 + the number of selected identifiers, which is min(N, length of
\* the list) for N >= 0.
C10_SequentialRequests ==
    op = "get_top_hackernews_stories" =>
        /\ (requests = <<>>) <=> (pc = "list")
        /\ requests # <<>> => requests[1].path = "topstories"
        /\ \A k \in 1..(Len(requests) - 1) : Received(requests[k].answer)
        /\ Len(requests) >= 2 =>
               /\ GotList
               /\ Len(requests) - 1 <= Len(SelectedIds(ListBody.value))
               /\ \A k \in 2..Len(requests) :
                      /\ requests[k].path = "item"
                      /\ requests[k].id = SelectedIds(ListBody.value)[k - 1]
        /\ ReturnedArray => Len(requests) = 1 + Len(SelectedIds(ListBody.value))
        /\ result = NoStoriesFound => Len(requests) = 1

C10_Witness ==
    /\ ReturnedArray
    /\ GotList
    /\ Len(ListBody.value) >= 1
    /\ num_stories > Len(ListBody.value)
    /\ Len(requests) = 1 + Len(ListBody.value)

====
